---- MODULE Spec2Model ----
(***************************************************************************)
(* WinGuitar: the BLE-MIDI notification decoder (MIDIHandler's             *)
(* midi_callback in midi_handler.py), modelled as a state machine that     *)
(* scans one notification payload at a time and emits Qt signals; the      *)
(* GuitarState of guitar.py; ChordVerifier.verify and get_errors; the       *)
(* ChordQueue of chord_queue.py; and the session of                        *)
(* guitar_fretboard_app.py: the slots that apply the decoder's signals to  *)
(* the GuitarState on the main thread, the chord timer and the practice    *)
(* sequence.                                                               *)
(*                                                                         *)
(* Python indexes from 0, TLA+ sequences from 1: At(d, k) is d[k].         *)
(* Python's None is the definition None.                                     *)
(***************************************************************************)
EXTENDS Integers, Sequences, FiniteSets, TLC

VARIABLES
    data,      \* the payload of the notification being decoded (bytes 0..255)
    i,         \* the scan position of midi_callback's while loop
    events,    \* the signals emitted so far by this call, in emission order
    pc,        \* "idle" (no call), "scan" (at the while test), "done" (returning)
    fault,     \* "none", "caught" (handled by the except clause), "propagated"
    \* --- the signal connections of GuitarFretboardApp.__init__
    connected,     \* the handler's signals are connected to the session's slots
    queue,         \* signals posted to the main thread and not yet delivered
    calls,         \* notifications delivered to a connected handler so far
    last_applied,  \* history: <<call, position>> of the message applied last
    \* --- GuitarState
    pressed_frets,   \* string -> fret held (0: none)
    strings_struck,  \* string -> fret of the last strike (0 at construction)
    struck_history,  \* history: strings struck at a fret >= 0 since the last clear
    \* --- the chord timer (a single-shot QTimer) and the time since a strike
    timer_active,    \* chord_timer is running
    timer_elapsed,   \* ms since chord_timer was started, up to chord_timeout_ms
    since_strike,    \* history: ms since on_note_pressed ran last, same cap
    \* --- the session
    practice_name,         \* the practice collection selected
    current_practice_idx,  \* index of the target chord in practice_chords
    feedback_text,         \* "", "CORRECT" or "INCORRECT"
    should_advance_chord,  \* advance when all frets are released
    shared,                \* the fretboard displays the session's GuitarState
    last_call,             \* history: the slot or method that ran last
    call_fault,            \* the exception that ended it, or "none"
    last_args,             \* history: the arguments it was called with
    \* --- one verification
    played,          \* how many strings the player has dealt with
    target,          \* the TargetChord verified: [name, frets, strings_to_strike]
    result,          \* the Python value verify returned: [type, value]
    \* --- the ChordVerifier
    stored_target,   \* self.target_frets and self.target_strings
    errors,          \* the mapping get_errors returned last, as a set of entries
    retargeted,      \* history: verify has been called on two different targets
    \* --- a ChordQueue
    chord_queue,     \* self._queue
    added,           \* history: the chords added since the last clear, in order
    popped,          \* history: how many pops since then returned a chord
    returned         \* the Python value its method returned last: [type, value]

decoderVars == <<data, i, events, pc, fault>>
guitarVars == <<pressed_frets, strings_struck, struck_history>>
timerVars == <<timer_active, timer_elapsed, since_strike>>
sessionVars ==
    <<practice_name, current_practice_idx, feedback_text, should_advance_chord,
      shared>>
callVars == <<last_call, call_fault, last_args>>
verifierVars == <<stored_target, errors, retargeted>>
verifyVars == <<played, target, result, verifierVars>>
queueVars == <<chord_queue, added, popped, returned>>

\* What no step of midi_callback touches.
appVars ==
    <<connected, last_applied, guitarVars, timerVars, sessionVars, callVars,
      verifyVars, queueVars>>

vars == <<decoderVars, queue, calls, appVars>>

----------------------------------------------------------------------------
(* Bounds of the model and the payloads it is run on.                      *)

\* The largest number of chunks in a composed payload.
MaxMsgs == 3

\* The largest fret passed to a GuitarState method called on its own.
MaxFret == 2

\* The strings the player of a chord may leave without a strike.
MaxSilentStrings == 1

\* The notifications the connected guitar sends in one run.
MaxNotifications == 2

\* The step of the clock, in ms.
TickMs == 125

\* The nested calls of one function Python allows (sys.getrecursionlimit(),
\* 1000 by default) before it raises RecursionError.
RecursionLimit == 3

\* The most chords added to a ChordQueue between two calls of clear.
MaxQueue == 3

\* A sequence of chunks laid end to end.
RECURSIVE Flatten(_)
Flatten(ss) == IF ss = <<>> THEN <<>> ELSE Head(ss) \o Flatten(Tail(ss))

\* All sequences over S of length 0..n.
SeqsUpTo(S, n) == UNION {[1..k -> S] : k \in 0..n}

\* The two opaque bytes in front of the MIDI messages; the second of these
\* headers looks like a Note-Off status, which the decoder must not read.
Headers == {<<0, 0>>, <<128, 128>>}

\* Data bytes tried in single-message payloads: notes below, at and above the
\* open-string pitches, both parities, both velocities.
Data1 == {0, 1, 2, 39, 60, 127}
Data2 == {0, 1, 3, 100}

\* One message with every possible status byte.
SinglePayloads ==
    {h \o <<st, d1, d2>> : h \in Headers, st \in 128..255, d1 \in Data1, d2 \in Data2}
    \cup {<<0, 0, st, d1, d2>> : st \in {0, 60, 127}, d1 \in Data1, d2 \in Data2}

\* Pieces that composed payloads are built from: complete messages of every
\* kind, a status whose low nibble is no string, short commands, bytes that
\* are skipped, and truncated messages.
Chunks ==
    { <<146, 60, 100>>,   \* 0x92 Note-On, velocity 100
      <<147, 60, 0>>,     \* 0x93 Note-On, velocity 0
      <<129, 45, 64>>,    \* 0x81 Note-Off
      <<164, 50, 10>>,    \* 0xA4 Polyphonic-Aftertouch
      <<181, 1, 3>>,      \* 0xB5 Control-Change, press
      <<176, 2, 7>>,      \* 0xB0 Control-Change, release
      <<150, 60, 100>>,   \* 0x96 Note-On on channel 6
      <<192, 5>>,         \* 0xC0 Program-Change
      <<211>>,            \* 0xD3 Channel-Pressure status alone
      <<240>>,            \* 0xF0 system
      <<224>>,            \* 0xE0 pitch bend (not recognized)
      <<60>>,             \* a byte below 0x80
      <<149, 64>> }       \* 0x95 Note-On cut after one data byte

ComposedPayloads == {<<128, 128>> \o Flatten(ss) : ss \in SeqsUpTo(Chunks, MaxMsgs)}

\* Buffers too short to hold a message.
ShortPayloads == SeqsUpTo({0, 60, 128, 144, 146, 176, 192, 240}, 2)

\* The payloads of the connected guitar: a strike alone, a fret held and a
\* strike, a strike with a release and a fret let go, a Note-On on a
\* channel without a tuning entry, a strike behind a system byte, a stray
\* data byte and a Program Change, and the fret of that strike let go.
AppPayloads ==
    { <<128, 128, 146, 60, 100>>,
      <<128, 128, 178, 0, 3>>,
      <<128, 128, 240, 60, 192, 5, 147, 57, 100>>,
      <<128, 128, 181, 1, 3, 146, 60, 100>>,
      <<128, 128, 144, 64, 100, 129, 45, 64, 181, 0, 3>>,
      <<128, 128, 150, 60, 100>> }

Payloads == ShortPayloads \cup SinglePayloads \cup ComposedPayloads

----------------------------------------------------------------------------
(* Python helpers.                                                         *)

\* d[k] of a Python sequence, k >= 0 or negative (from the end).
At(d, k) == IF k >= 0 THEN d[k + 1] ELSE d[Len(d) + k + 1]

\* d[k] does not raise IndexError.
InRange(d, k) == k \in (0 - Len(d))..(Len(d) - 1)

----------------------------------------------------------------------------
(* MIDIHandler.                                                            *)

STANDARD_TUNING == <<40, 45, 50, 55, 59, 64>>

\* midi_to_fret_info(string, midi_note); defined where the index is in range.
midi_to_fret_info(str, midi_note) == midi_note - At(STANDARD_TUNING, str)

\* One emitted signal.
Sig(name, args) == [sig |-> name, args |-> args]

\* The signals emitted by the callback's thread reach the slots connected to
\* them through the event queue of the main thread: newest last.
PostFront(q, es) == es \o q

Post(q, es) == q \o es

\* History: the events of a message with the notification and the position
\* they come from.
Tagged(es, c, p) ==
    [k \in 1..Len(es) |-> [sig |-> es[k].sig, args |-> es[k].args,
                           call |-> c, pos |-> p]]

\* `if not data or len(data) < 3: return`
TooShort(d) == d = <<>> \/ Len(d) < 3

\* Entry with a short buffer rejected as an error in front of the try block.
EntryStrict(d) ==
    IF TooShort(d)
    THEN [pc |-> "done", i |-> 0, fault |-> "propagated"]
    ELSE [pc |-> "scan", i |-> 2, fault |-> "none"]

\* The entry of midi_callback: the early return, else the scan starts behind
\* the 2-byte header.
Entry(d) ==
    IF TooShort(d)
    THEN [pc |-> "done", i |-> 0, fault |-> "none"]
    ELSE [pc |-> "scan", i |-> 2, fault |-> "none"]

\* An except clause that names one exception class only.
ExceptValueErrorOnly(exc) == IF exc = "ValueError" THEN "caught" ELSE "propagated"

\* `except Exception as e: print(...)`: every exception of the try body is
\* handled inside the callback.
ExceptHandler(exc) == "caught"

\* The locals of one loop iteration.
midi_status == At(data, i)
command == (midi_status \div 16) * 16     \* midi_status & 0xF0
string == midi_status % 16                \* midi_status & 0x0F
note == At(data, i + 1)
velocity == At(data, i + 2)
fret == midi_to_fret_info(string, note)

\* The 3-byte list with Pitch-Bend (0xE0) added, as in standard MIDI.
ThreeByteWithPitchBend == {128, 144, 160, 176, 224}

ThreeByteCommands == {128, 144, 160, 176}     \* 0x80, 0x90, 0xA0, 0xB0

\* The 2-byte list without Channel-Pressure.
TwoByteProgramChangeOnly == {192}

TwoByteCommands == {192, 208}                 \* 0xC0, 0xD0

\* The truncation test off by one.
Truncated3OffByOne == i + 2 > Len(data)

\* `if i + 2 >= len(data): break`
Truncated3 == i + 2 >= Len(data)

\* `if i + 1 >= len(data): break`
Truncated2 == i + 1 >= Len(data)

\* The signals one complete 3-byte message emits.
Dispatch(cmd, str, nt, frt, vel) ==
    IF cmd = 144 THEN
        IF vel > 0 THEN <<Sig("midi_note_received", <<5 - str, frt>>)>>
        ELSE <<Sig("midi_note_released", <<str>>)>>
    ELSE IF cmd = 128 THEN <<Sig("midi_note_released", <<str>>)>>
    ELSE IF cmd = 176 THEN
        IF nt % 2 = 1 THEN <<Sig("fret_pressed", <<str, vel>>)>>
        ELSE <<Sig("fret_released", <<str, vel>>)>>
    ELSE <<>>

\* The reads of a 3-byte message that raise IndexError: data[i+1],
\* STANDARD_TUNING[string], data[i+2].
Raises3 ==
    \/ ~InRange(data, i + 1)
    \/ ~InRange(STANDARD_TUNING, string)
    \/ ~InRange(data, i + 2)

----------------------------------------------------------------------------
(* Actions.                                                                *)

\* The transport delivers a notification: midi_callback(sender, data) starts.
Notify ==
    /\ pc = "idle"
    /\ connected => calls < MaxNotifications
    /\ \E d \in (IF connected THEN AppPayloads ELSE Payloads) :
        /\ data' = d
        /\ pc' = Entry(d).pc
        /\ i' = Entry(d).i
        /\ fault' = Entry(d).fault
    /\ events' = <<>>
    /\ calls' = IF connected THEN calls + 1 ELSE calls
    /\ UNCHANGED <<queue, appVars>>

\* `while i < len(data)` is false: the loop ends.
LoopExit ==
    /\ pc = "scan"
    /\ ~(i < Len(data))
    /\ pc' = "done"
    /\ UNCHANGED <<data, i, events, fault, queue, calls, appVars>>

\* `if command == 0xF0: i += 1; continue`
SystemSkip ==
    /\ pc = "scan"
    /\ i < Len(data)
    /\ command = 240
    /\ i' = i + 1
    /\ UNCHANGED <<data, events, pc, fault, queue, calls, appVars>>

\* The 3-byte branch with slots that run inside `emit`, in the callback's
\* thread: the fret of the message is written at once.
ThreeByteDirect ==
    /\ pc = "scan"
    /\ i < Len(data)
    /\ command # 240
    /\ command \in ThreeByteCommands
    /\ ~Truncated3
    /\ ~Raises3
    /\ events' = events \o Dispatch(command, string, note, fret, velocity)
    /\ i' = i + 3
    /\ pressed_frets' = [pressed_frets EXCEPT ![0] = 1]
    /\ UNCHANGED <<data, pc, fault, queue, calls, connected, last_applied,
                   strings_struck, struck_history, timerVars, sessionVars,
                   callVars, verifyVars, queueVars>>

\* `if command in [0x80, 0x90, 0xA0, 0xB0]: ...`
ThreeByte ==
    /\ pc = "scan"
    /\ i < Len(data)
    /\ command # 240
    /\ command \in ThreeByteCommands
    /\ IF Truncated3 THEN
            /\ pc' = "done"
            /\ UNCHANGED <<i, events, fault>>
       ELSE IF Raises3 THEN
            /\ pc' = "done"
            /\ fault' = ExceptHandler("IndexError")
            /\ UNCHANGED <<i, events>>
       ELSE
            /\ events' = events \o Dispatch(command, string, note, fret, velocity)
            /\ i' = i + 3
            /\ UNCHANGED <<pc, fault>>
    /\ queue' = IF connected /\ ~Truncated3 /\ ~Raises3
                THEN Post(queue, Tagged(Dispatch(command, string, note, fret,
                                                 velocity), calls, i))
                ELSE queue
    /\ UNCHANGED <<data, calls, appVars>>

\* `elif command in [0xC0, 0xD0]: ...`
TwoByte ==
    /\ pc = "scan"
    /\ i < Len(data)
    /\ command # 240
    /\ command \notin ThreeByteCommands
    /\ command \in TwoByteCommands
    /\ IF Truncated2 THEN
            /\ pc' = "done"
            /\ UNCHANGED i
       ELSE
            /\ i' = i + 2
            /\ UNCHANGED pc
    /\ UNCHANGED <<data, events, fault, queue, calls, appVars>>

\* The else branch without its increment.
UnknownSkipNoAdvance ==
    /\ pc = "scan"
    /\ i < Len(data)
    /\ command # 240
    /\ command \notin ThreeByteCommands
    /\ command \notin TwoByteCommands
    /\ UNCHANGED vars

\* `else: i += 1`
UnknownSkip ==
    /\ pc = "scan"
    /\ i < Len(data)
    /\ command # 240
    /\ command \notin ThreeByteCommands
    /\ command \notin TwoByteCommands
    /\ i' = i + 1
    /\ UNCHANGED <<data, events, pc, fault, queue, calls, appVars>>

\* midi_callback returns; its locals are gone.
Return ==
    /\ pc = "done"
    /\ pc' = "idle"
    /\ data' = <<>>
    /\ i' = 0
    /\ events' = <<>>
    /\ fault' = "none"
    /\ UNCHANGED <<queue, calls, appVars>>

----------------------------------------------------------------------------
(* GuitarState.                                                            *)

Strings == 0..5

\* Python's None as a list entry: an integer no fret can be (a fret is a
\* MIDI note 0..127 less a tuning note, or a controller value 0..127).
None == -1000

\* lst[k] of a 6-entry Python list held as a function on 0..5.
ListAt(lst, k) == IF k >= 0 THEN lst[k] ELSE lst[6 + k]

\* lst[k] does not raise IndexError.
ListInRange(k) == k \in -6..5

\* GuitarState.__init__
NewPressedFrets == [s \in Strings |-> 0]
NewStringsStruck == [s \in Strings |-> 0]

\* press_fret with the upper bound of the guard alone: pressed_frets[-1] is
\* the last entry of the list.
press_fret_below_6(pf, str, frt) ==
    IF str < 6 /\ frt >= 0 /\ ListInRange(str)
    THEN [pf EXCEPT ![IF str >= 0 THEN str ELSE 6 + str] = frt] ELSE pf

\* press_fret that records nothing.
press_fret_dropped(pf, str, frt) == pf

\* press_fret without the test of the fret.
press_fret_any_fret(pf, str, frt) ==
    IF 0 <= str /\ str < 6 THEN [pf EXCEPT ![str] = frt] ELSE pf

press_fret(pf, str, frt) ==
    IF 0 <= str /\ str < 6 /\ frt >= 0 THEN [pf EXCEPT ![str] = frt] ELSE pf

release_fret(pf, str, frt) ==
    IF 0 <= str /\ str < 6 /\ frt >= 0 THEN [pf EXCEPT ![str] = 0] ELSE pf

strike_string(ss, str, frt) ==
    IF 0 <= str /\ str < 6 THEN [ss EXCEPT ![str] = frt] ELSE ss

\* release_string with the two lines its body keeps as a comment.
release_string_resets(ss, str) ==
    IF 0 <= str /\ str < 6 THEN [ss EXCEPT ![str] = 0] ELSE ss

\* The body is `pass`.
release_string(ss, str) == ss

\* `return self.strings_struck[string] > 0`: "True", "False", or the
\* exception the expression raises.
is_string_struck(ss, str) ==
    IF ~ListInRange(str) THEN "IndexError"
    ELSE IF ListAt(ss, str) = None THEN "TypeError"
    ELSE IF ListAt(ss, str) > 0 THEN "True" ELSE "False"

\* `return self.pressed_frets[string]`, for an index in range.
get_fret_pressed(pf, str) == ListAt(pf, str)

\* The fields as clear_all leaves them when its last line raises.
ClearedPressedFrets == [s \in Strings |-> 0]
ClearedStringsStruck == [s \in Strings |-> None]

\* History: str was struck at a fret >= 0.
Struck(h, str, frt) == IF str \in Strings /\ frt >= 0 THEN h \cup {str} ELSE h

\* The arguments tried when the methods are called on their own: two strings
\* of the guitar and an index on either side of the range.
GuitarStrings == {-1, 0, 5, 6}
GuitarFrets == -1..MaxFret

\* What a call of a GuitarState method leaves alone.
notGuitar == <<queueVars, decoderVars, queue, calls, connected, last_applied, timerVars,
               sessionVars, verifyVars>>

CallPressFret ==
    /\ \E s \in GuitarStrings, f \in GuitarFrets :
          /\ pressed_frets' = press_fret(pressed_frets, s, f)
          /\ last_args' = <<s, f>>
    /\ last_call' = "press_fret"
    /\ call_fault' = "none"
    /\ UNCHANGED <<strings_struck, struck_history, notGuitar>>

CallReleaseFret ==
    /\ \E s \in GuitarStrings, f \in GuitarFrets :
          /\ pressed_frets' = release_fret(pressed_frets, s, f)
          /\ last_args' = <<s, f>>
    /\ last_call' = "release_fret"
    /\ call_fault' = "none"
    /\ UNCHANGED <<strings_struck, struck_history, notGuitar>>

CallStrikeString ==
    /\ \E s \in GuitarStrings, f \in GuitarFrets :
          /\ strings_struck' = strike_string(strings_struck, s, f)
          /\ struck_history' = Struck(struck_history, s, f)
          /\ last_args' = <<s, f>>
    /\ last_call' = "strike_string"
    /\ call_fault' = "none"
    /\ UNCHANGED <<pressed_frets, notGuitar>>

CallReleaseString ==
    /\ \E s \in GuitarStrings :
          /\ strings_struck' = release_string(strings_struck, s)
          /\ last_args' = <<s>>
    /\ last_call' = "release_string"
    /\ call_fault' = "none"
    /\ UNCHANGED <<pressed_frets, struck_history, notGuitar>>

\* clear_all resets both lists, then `self.struck_strings.clear()` raises
\* AttributeError: GuitarState has no such attribute.
CallClearAll ==
    /\ pressed_frets' = ClearedPressedFrets
    /\ strings_struck' = ClearedStringsStruck
    /\ struck_history' = {}
    /\ last_call' = "clear_all"
    /\ last_args' = <<>>
    /\ call_fault' = "AttributeError"
    /\ UNCHANGED notGuitar

----------------------------------------------------------------------------
(* PracticeLibrary and ChordVerifier.                                      *)

\* `x in lst`
InList(x, lst) == \E k \in 1..Len(lst) : lst[k] = x

\* `[i for i, fret in enumerate(frets) if fret != -1]`
StringsToStrike(frets) ==
    LET idx == [k \in 1..Len(frets) |-> k - 1]
        NotMuted(k) == frets[k + 1] # -1
    IN SelectSeq(idx, NotMuted)

\* TargetChord(chord_name, frets, strings_to_strike) as _load_collections
\* builds it.
TargetChord(chord_name, frets) ==
    [name |-> chord_name, frets |-> frets,
     strings_to_strike |-> StringsToStrike(frets)]

\* No chord: the names the session tests against 'None'.
NoTarget == [name |-> "None", frets |-> <<>>, strings_to_strike |-> <<>>]

\* Chord shapes, low E first: open E major, A minor with the low E muted, a
\* shape fretted on every string, and a shape with no frets at all.
Targets ==
    { TargetChord("E", <<0, 2, 2, 1, 0, 0>>),
      TargetChord("Am", <<-1, 0, 2, 2, 1, 0>>),
      TargetChord("Barre", <<1, 2, 2, 2, 2, 1>>),
      TargetChord("Empty", <<>>) }

\* Python values a call hands back: a bare bool, a 2-tuple of bools, or an
\* exception in place of a value.
PyBool(b) == [type |-> "bool", value |-> <<b>>]
PyTuple(a, b) == [type |-> "tuple", value |-> <<a, b>>]
PyRaise(e) == [type |-> e, value |-> <<>>]
Unset == [type |-> "unset", value |-> <<>>]

\* The loop of verify from string_idx on, with the two flags so far; tf and
\* ts are target_frets and target_strings.
RECURSIVE VerifyLoop(_, _, _, _, _, _, _)
VerifyLoop(string_idx, frets_matched, strings_matched, tf, ts, pf, ss) ==
    IF string_idx = 6 THEN PyTuple(frets_matched, strings_matched)
    ELSE
        LET pressed_fret == get_fret_pressed(pf, 5 - string_idx)
            string_struck == is_string_struck(ss, 5 - string_idx)
            t == At(tf, string_idx)
            in_target == InList(string_idx, ts)
        IN  IF string_struck = "TypeError" THEN PyRaise("TypeError")
            ELSE IF ~InRange(tf, string_idx) THEN PyRaise("IndexError")
            ELSE IF t = -1 THEN
                VerifyLoop(string_idx + 1, frets_matched,
                           IF string_struck = "True" THEN FALSE
                           ELSE strings_matched,
                           tf, ts, pf, ss)
            ELSE IF t = 0 THEN
                VerifyLoop(string_idx + 1, frets_matched,
                           IF \/ in_target /\ string_struck # "True"
                              \/ ~in_target /\ string_struck = "True"
                           THEN FALSE ELSE strings_matched,
                           tf, ts, pf, ss)
            ELSE
                VerifyLoop(string_idx + 1,
                           IF pressed_fret # t THEN FALSE ELSE frets_matched,
                           IF in_target /\ string_struck # "True"
                           THEN FALSE ELSE strings_matched,
                           tf, ts, pf, ss)

\* verify with the frets held taken for the strikes as well.
verify_held_as_struck(target_frets, target_strings, pf, ss) ==
    IF target_frets = <<>> THEN PyBool(FALSE)
    ELSE VerifyLoop(0, TRUE, TRUE, target_frets, target_strings, pf, pf)

\* ChordVerifier.verify on the two lists of a GuitarState.
verify(target_frets, target_strings, pf, ss) ==
    IF target_frets = <<>> THEN PyBool(FALSE)
    ELSE VerifyLoop(0, TRUE, TRUE, target_frets, target_strings, pf, ss)

\* `strings_matched, frets_matched = self.verifier.verify(...)` raises
\* TypeError when the value is not a 2-tuple.
UnpackRaises(r) == r.type # "tuple"

\* ChordVerifier.__init__: both fields are None, which `not` treats as it
\* treats the empty list.
NewStoredTarget == [target_frets |-> <<>>, target_strings |-> <<>>]

\* A verifier that keeps the target of its first call.
StoreFirst(old, target_frets, target_strings) ==
    IF old.target_frets = <<>>
    THEN [target_frets |-> target_frets, target_strings |-> target_strings]
    ELSE old

\* `self.target_frets = target_frets; self.target_strings = target_strings`.
\* self.guitar_state is the one GuitarState there is.
Store(old, target_frets, target_strings) ==
    [target_frets |-> target_frets, target_strings |-> target_strings]

\* One entry of the mapping get_errors returns: errors[key] is the message
\* msg, formatted with args.
ErrorEntry(key, msg, args) == [key |-> key, msg |-> msg, args |-> args]

\* The iteration of get_errors for t_index, as a set of at most one entry.
ErrorsOf(t_index, tf, pf, ss) ==
    LET target_fret == At(tf, 5 - t_index)
        pressed_fret == get_fret_pressed(pf, t_index)
        struck == is_string_struck(ss, 5 - t_index) = "True"
    IN  IF target_fret = 0 THEN
            IF ~struck
            THEN {ErrorEntry(t_index, "should be struck open", <<>>)} ELSE {}
        ELSE IF target_fret = -1 THEN
            IF struck
            THEN {ErrorEntry(t_index, "should not be struck", <<>>)} ELSE {}
        ELSE
            IF ~struck
            THEN {ErrorEntry(t_index, "should be struck", <<>>)}
            ELSE IF pressed_fret # target_fret
            THEN {ErrorEntry(t_index, "should be on fret",
                             <<target_fret, pressed_fret>>)}
            ELSE {}

\* ChordVerifier.get_errors on the stored target and the GuitarState, when
\* it does not raise.
get_errors(tf, pf, ss) ==
    IF tf = <<>> THEN {}
    ELSE UNION {ErrorsOf(t_index, tf, pf, ss) : t_index \in 0..5}

\* The exception get_errors raises, or "none".
get_errors_fault(tf, ss) ==
    IF tf = <<>> THEN "none"
    ELSE IF \E s \in Strings : ss[s] = None THEN "TypeError"
    ELSE IF Len(tf) < 6 THEN "IndexError"
    ELSE "none"

\* The frets a player of the target shapes puts a finger on or strikes at.
PlayedFrets == {f \in UNION {{t.frets[k] : k \in 1..Len(t.frets)} : t \in Targets} : f >= 0}

\* What a step of the player or a call of verify leaves alone.
notPlayed == <<queueVars, decoderVars, queue, calls, connected, last_applied, timerVars,
               sessionVars>>

\* The player strikes the next string at fret f: the session records the
\* strike, then the fret (on_note_pressed, the two GuitarState calls).
PlayString ==
    /\ last_call # "get_errors"
    /\ played < 6
    /\ \E f \in PlayedFrets :
          /\ strings_struck' = strike_string(strings_struck, played, f)
          /\ pressed_frets' = press_fret(pressed_frets, played, f)
          /\ struck_history' = Struck(struck_history, played, f)
          /\ last_args' = <<played, f>>
    /\ played' = played + 1
    /\ last_call' = "strike_string"
    /\ UNCHANGED <<call_fault, target, result, verifierVars, notPlayed>>

\* History: the strings the player has dealt with and not struck.
SilentStrings == {s \in 0..(played - 1) : s \notin struck_history}

\* The player holds fret f on the next string without striking it.
HoldString ==
    /\ last_call # "get_errors"
    /\ played < 6
    /\ Cardinality(SilentStrings) < MaxSilentStrings
    /\ \E f \in PlayedFrets :
          /\ pressed_frets' = press_fret(pressed_frets, played, f)
          /\ last_args' = <<played, f>>
    /\ played' = played + 1
    /\ last_call' = "press_fret"
    /\ UNCHANGED <<strings_struck, struck_history, call_fault, target, result,
                   verifierVars, notPlayed>>

\* verify is called with a target and the GuitarState as it is.
CallVerify ==
    /\ last_call # "get_errors"
    /\ \E t \in Targets :
          /\ target' = t
          /\ retargeted' = (retargeted \/ (target # NoTarget /\ t # target))
          /\ stored_target' = Store(stored_target, t.frets, t.strings_to_strike)
          /\ result' = verify(t.frets, t.strings_to_strike,
                              pressed_frets, strings_struck)
    /\ last_call' = "verify"
    /\ last_args' = <<>>
    /\ call_fault' = IF result'.type \in {"bool", "tuple"} THEN "none"
                     ELSE result'.type
    /\ UNCHANGED <<guitarVars, played, errors, notPlayed>>

\* get_errors is called; it reads the stored target and the GuitarState as
\* it is now.
CallGetErrors ==
    /\ last_call # "get_errors"
    /\ errors' = get_errors(stored_target.target_frets,
                            pressed_frets, strings_struck)
    /\ last_call' = "get_errors"
    /\ last_args' = <<>>
    /\ call_fault' = get_errors_fault(stored_target.target_frets, strings_struck)
    /\ UNCHANGED <<guitarVars, played, target, result, stored_target,
                   retargeted, notPlayed>>

----------------------------------------------------------------------------
(* GuitarFretboardApp: the slots of the main thread and the chord timer.   *)

chord_timeout_ms == 250

\* PracticeLibrary.collections: every collection holds at least one chord.
\* The first chord of Notes is one fretted string with the others muted.
Collections ==
    [ Basics |-> << TargetChord("E", <<0, 2, 2, 1, 0, 0>>),
                    TargetChord("Am", <<-1, 0, 2, 2, 1, 0>>) >>,
      Barres |-> << TargetChord("Barre", <<1, 2, 2, 2, 2, 1>>) >>,
      Notes |-> << TargetChord("A", <<-1, -1, -1, 2, -1, -1>>),
                   TargetChord("E", <<0, 2, 2, 1, 0, 0>>) >> ]

CollectionNames == DOMAIN Collections

\* practice_combo.currentText() after construction: the first name.
FirstCollection == "Basics"

\* The names on_practice_changed is called with when it is called on its
\* own: those of the collections and one that names none.
PracticeNames == CollectionNames \cup {"Unknown"}

\* `self.practice_library.get_collection(practice_name) or []`
get_collection(name) ==
    IF name \in DOMAIN Collections THEN Collections[name] ELSE <<>>

\* self.practice_chords: [] at construction, then the collection selected.
practice_chords == get_collection(practice_name)

\* get_summary reads self.pressed_frets.items() on a list: AttributeError.
get_summary_raises == TRUE

\* chord_timer.start() on a timer that keeps the time it has run already.
StartKeepsElapsed(active, elapsed) == IF active THEN elapsed ELSE 0

\* `self.chord_timer.stop(); self.chord_timer.start(self.chord_timeout_ms)`:
\* the time the timer has run after the two calls.
StopAndStart(active, elapsed) == 0

\* `all(f == 0 for f in self.guitar_state.pressed_frets)`
AllFretsReleased(pf) == \A s \in Strings : pf[s] = 0

\* _load_next_practice_chord that stays on the last chord past the end.
load_without_restart(idx, chords, depth) ==
    IF idx < Len(chords) THEN [idx |-> idx, fault |-> "none"]
    ELSE IF chords = <<>> THEN [idx |-> 0, fault |-> "RecursionError"]
    ELSE [idx |-> Len(chords) - 1, fault |-> "none"]

\* _load_next_practice_chord, entered with depth calls of itself on the
\* stack: past the end it sets the index to 0 and calls itself; Python ends
\* the RecursionLimit-th nested call with RecursionError.
RECURSIVE load_next_practice_chord(_, _, _)
load_next_practice_chord(idx, chords, depth) ==
    IF idx < Len(chords) THEN [idx |-> idx, fault |-> "none"]
    ELSE IF depth >= RecursionLimit THEN [idx |-> 0, fault |-> "RecursionError"]
    ELSE load_next_practice_chord(0, chords, depth + 1)

\* The index _load_next_practice_chord leaves: it starts over past the end.
LoadedIdx(idx, chords) == load_next_practice_chord(idx, chords, 0).idx

\* The chord the fretboard shows after _load_next_practice_chord: the one
\* at the index, or the one it showed before when the call has raised.
LoadedTarget(shown, idx, chords) ==
    IF load_next_practice_chord(idx, chords, 0).fault = "none"
    THEN At(chords, LoadedIdx(idx, chords)) ELSE shown

Min(a, b) == IF a < b THEN a ELSE b

\* The event the main thread delivers next, and its bookkeeping.
Pending(name) == queue # <<>> /\ Head(queue).sig = name
Delivered ==
    /\ queue' = Tail(queue)
    /\ last_applied' = <<Head(queue).call, Head(queue).pos>>

on_note_pressed ==
    /\ Pending("midi_note_received")
    /\ Delivered
    /\ LET str == Head(queue).args[1]
           frt == Head(queue).args[2]
       IN  /\ timer_elapsed' = StopAndStart(timer_active, timer_elapsed)
           /\ timer_active' = TRUE
           /\ since_strike' = 0
           /\ strings_struck' = strike_string(strings_struck, str, frt)
           /\ pressed_frets' = press_fret(pressed_frets, str, frt)
           /\ struck_history' = Struck(struck_history, str, frt)
    /\ last_call' = "on_note_pressed"
    /\ last_args' = Head(queue).args
    /\ call_fault' = IF get_summary_raises THEN "AttributeError" ELSE "none"
    /\ shared' = IF get_summary_raises THEN shared ELSE TRUE
    /\ UNCHANGED <<queueVars, decoderVars, calls, connected, practice_name,
                   current_practice_idx, feedback_text, should_advance_chord,
                   verifyVars>>

on_note_released ==
    /\ Pending("midi_note_released")
    /\ Delivered
    /\ strings_struck' = release_string(strings_struck, Head(queue).args[1])
    /\ last_call' = "on_note_released"
    /\ last_args' = Head(queue).args
    /\ call_fault' = IF get_summary_raises THEN "AttributeError" ELSE "none"
    /\ shared' = IF get_summary_raises THEN shared ELSE TRUE
    /\ UNCHANGED <<queueVars, decoderVars,
                   calls, connected, pressed_frets, struck_history,
                   timerVars, practice_name, current_practice_idx,
                   feedback_text, should_advance_chord, verifyVars>>

on_fret_pressed ==
    /\ Pending("fret_pressed")
    /\ Delivered
    /\ pressed_frets' = press_fret(pressed_frets, Head(queue).args[1],
                                   Head(queue).args[2])
    /\ shared' = TRUE
    /\ last_call' = "on_fret_pressed"
    /\ last_args' = Head(queue).args
    /\ call_fault' = "none"
    /\ UNCHANGED <<queueVars, decoderVars,
                   calls, connected, strings_struck, struck_history,
                   timerVars, practice_name, current_practice_idx,
                   feedback_text, should_advance_chord, verifyVars>>

on_fret_released ==
    /\ Pending("fret_released")
    /\ Delivered
    /\ pressed_frets' = release_fret(pressed_frets, Head(queue).args[1],
                                     Head(queue).args[2])
    /\ LET advance == AllFretsReleased(pressed_frets') /\ should_advance_chord
           loaded == load_next_practice_chord(current_practice_idx + 1,
                                              practice_chords, 0)
       IN  /\ should_advance_chord' =
                   IF AllFretsReleased(pressed_frets') THEN FALSE
                   ELSE should_advance_chord
           /\ current_practice_idx' =
                   IF advance THEN loaded.idx ELSE current_practice_idx
           /\ target' =
                   IF advance
                   THEN LoadedTarget(target, current_practice_idx + 1,
                                     practice_chords)
                   ELSE target
           /\ call_fault' = IF advance THEN loaded.fault ELSE "none"
           /\ feedback_text' =
                   IF AllFretsReleased(pressed_frets') /\ call_fault' = "none"
                   THEN "" ELSE feedback_text
           /\ shared' = IF call_fault' = "none" THEN TRUE ELSE shared
    /\ last_call' = "on_fret_released"
    /\ last_args' = Head(queue).args
    /\ UNCHANGED <<queueVars, decoderVars,
                   calls, connected, strings_struck, struck_history,
                   timerVars, practice_name, played, result, verifierVars>>

\* The practice combo box changes its text to another collection. The chord
\* timer is not touched.
on_practice_changed ==
    /\ \E name \in (IF connected THEN CollectionNames ELSE PracticeNames)
                    \ {practice_name} :
          /\ practice_name' = name
          /\ current_practice_idx' = LoadedIdx(0, get_collection(name))
          /\ target' = LoadedTarget(target, 0, get_collection(name))
          /\ call_fault' =
                 load_next_practice_chord(0, get_collection(name), 0).fault
    /\ last_call' = "on_practice_changed"
    /\ last_args' = <<>>
    /\ UNCHANGED <<queueVars, decoderVars,
                   queue, calls, connected, last_applied,
                   guitarVars, timerVars, feedback_text, should_advance_chord,
                   shared, played, result, verifierVars>>

\* The chord combo box changes its text. For a chord of CHORD_PRESETS
\* set_chord calls clear_all on the GuitarState the fretboard displays, which
\* resets the two lists and raises. The chord timer is not touched.
on_chord_changed ==
    /\ \E preset \in BOOLEAN :
          /\ IF preset /\ shared
             THEN /\ pressed_frets' = ClearedPressedFrets
                  /\ strings_struck' = ClearedStringsStruck
                  /\ struck_history' = {}
             ELSE UNCHANGED guitarVars
          /\ call_fault' = IF preset THEN "AttributeError" ELSE "none"
    /\ last_call' = "on_chord_changed"
    /\ last_args' = <<>>
    /\ UNCHANGED <<queueVars, decoderVars,
                   queue, calls, connected, last_applied,
                   timerVars, sessionVars, verifyVars>>

\* TickMs of time pass.
Tick ==
    /\ timer_elapsed' = IF timer_active
                        THEN Min(timer_elapsed + TickMs, chord_timeout_ms)
                        ELSE timer_elapsed
    /\ since_strike' = Min(since_strike + TickMs, chord_timeout_ms)
    /\ UNCHANGED <<queueVars, decoderVars,
                   queue, calls, connected, last_applied,
                   guitarVars, timer_active, sessionVars, callVars, verifyVars>>

\* chord_timer times out: single-shot, it stops, and its slot runs. The
\* slot's second statement prints get_summary(), which raises, so nothing
\* after it runs: no verification, no feedback, no clearing.
finished_chord ==
    /\ timer_active
    /\ timer_elapsed >= chord_timeout_ms
    /\ timer_active' = FALSE
    /\ last_call' = "finished_chord"
    /\ last_args' = <<>>
    /\ IF get_summary_raises
       THEN /\ call_fault' = "AttributeError"
            /\ UNCHANGED <<feedback_text, should_advance_chord, result,
                           verifierVars>>
       ELSE /\ result' = verify(target.frets, target.strings_to_strike,
                                pressed_frets, strings_struck)
            /\ stored_target' = Store(stored_target, target.frets,
                                      target.strings_to_strike)
            /\ errors' = get_errors(target.frets, pressed_frets, strings_struck)
            /\ UNCHANGED retargeted
            /\ call_fault' = IF UnpackRaises(result') THEN "TypeError"
                             ELSE "AttributeError"
            /\ feedback_text' =
                   IF UnpackRaises(result') THEN feedback_text
                   ELSE IF result'.value[1] /\ result'.value[2] THEN "CORRECT"
                   ELSE "INCORRECT"
            /\ should_advance_chord' =
                   IF UnpackRaises(result') THEN should_advance_chord
                   ELSE (should_advance_chord
                         \/ (result'.value[1] /\ result'.value[2]))
    /\ UNCHANGED <<queueVars, decoderVars,
                   queue, calls, connected, last_applied,
                   guitarVars, timer_elapsed, since_strike, practice_name,
                   current_practice_idx, shared, played, target>>

\* A caller moves to the next chord as on_fret_released and finished_chord
\* do: `self.current_practice_idx += 1`, then _load_next_practice_chord().
CallLoadNextPracticeChord ==
    /\ LET loaded == load_next_practice_chord(current_practice_idx + 1,
                                              practice_chords, 0)
       IN  /\ current_practice_idx' = loaded.idx
           /\ call_fault' = loaded.fault
    /\ target' = LoadedTarget(target, current_practice_idx + 1, practice_chords)
    /\ last_call' = "_load_next_practice_chord"
    /\ last_args' = <<current_practice_idx + 1>>
    /\ UNCHANGED <<queueVars, decoderVars, queue, calls, connected,
                   last_applied, guitarVars, timerVars, practice_name,
                   feedback_text, should_advance_chord, shared, played, result,
                   verifierVars>>

----------------------------------------------------------------------------
(* ChordQueue.                                                             *)

\* The chords put into a queue.
QueueChords == {t \in Targets : t.frets # <<>>}

\* Python values a method of the queue returns.
PyObject(c) == [type |-> "TargetChord", value |-> <<c>>]
PyInt(n) == [type |-> "int", value |-> <<n>>]
PyNone == [type |-> "NoneType", value |-> <<>>]

\* `self._queue.append(chord)`
add(q, chord) == Append(q, chord)

\* pop taking the chord added last.
pop_last(q) ==
    IF q # <<>>
    THEN [queue |-> SubSeq(q, 1, Len(q) - 1), value |-> PyObject(q[Len(q)])]
    ELSE [queue |-> q, value |-> PyNone]

\* `if self._queue: return self._queue.pop(0)`, `return None`: the list it
\* leaves and the value it returns.
pop(q) ==
    IF q # <<>> THEN [queue |-> Tail(q), value |-> PyObject(At(q, 0))]
    ELSE [queue |-> q, value |-> PyNone]

\* `if self._queue: return self._queue[0]`, `return None`
peek(q) == IF q # <<>> THEN PyObject(At(q, 0)) ELSE PyNone

\* `return len(self._queue) == 0`
is_empty(q) == PyBool(Len(q) = 0)

\* `return len(self._queue)`
size(q) == PyInt(Len(q))

\* `self._queue.clear()`
clear(q) == <<>>

\* What a call of a ChordQueue method leaves alone.
notQueue == <<decoderVars, queue, calls, connected, last_applied, guitarVars,
              timerVars, sessionVars, verifyVars>>

CallAdd ==
    /\ Len(added) < MaxQueue
    /\ \E chord \in QueueChords :
          /\ chord_queue' = add(chord_queue, chord)
          /\ added' = Append(added, chord)
          /\ last_args' = <<chord.name>>
    /\ returned' = PyNone
    /\ last_call' = "add"
    /\ call_fault' = "none"
    /\ UNCHANGED <<popped, notQueue>>

CallPop ==
    /\ chord_queue' = pop(chord_queue).queue
    /\ returned' = pop(chord_queue).value
    /\ popped' = IF returned' = PyNone THEN popped ELSE popped + 1
    /\ last_call' = "pop"
    /\ last_args' = <<>>
    /\ call_fault' = "none"
    /\ UNCHANGED <<added, notQueue>>

CallPeek ==
    /\ returned' = peek(chord_queue)
    /\ last_call' = "peek"
    /\ last_args' = <<>>
    /\ call_fault' = "none"
    /\ UNCHANGED <<chord_queue, added, popped, notQueue>>

CallIsEmpty ==
    /\ returned' = is_empty(chord_queue)
    /\ last_call' = "is_empty"
    /\ last_args' = <<>>
    /\ call_fault' = "none"
    /\ UNCHANGED <<chord_queue, added, popped, notQueue>>

CallSize ==
    /\ returned' = size(chord_queue)
    /\ last_call' = "size"
    /\ last_args' = <<>>
    /\ call_fault' = "none"
    /\ UNCHANGED <<chord_queue, added, popped, notQueue>>

CallClear ==
    /\ chord_queue' = clear(chord_queue)
    /\ added' = <<>>
    /\ popped' = 0
    /\ returned' = PyNone
    /\ last_call' = "clear"
    /\ last_args' = <<>>
    /\ call_fault' = "none"
    /\ UNCHANGED notQueue

----------------------------------------------------------------------------
(* Specifications.                                                         *)

\* The state after construction.
InitCommon ==
    /\ data = <<>>
    /\ i = 0
    /\ events = <<>>
    /\ pc = "idle"
    /\ fault = "none"
    /\ queue = <<>>
    /\ calls = 0
    /\ last_applied = <<0, 0>>
    /\ pressed_frets = NewPressedFrets
    /\ strings_struck = NewStringsStruck
    /\ struck_history = {}
    /\ timer_active = FALSE
    /\ timer_elapsed = 0
    /\ since_strike = 0
    /\ current_practice_idx = 0
    /\ feedback_text = ""
    /\ should_advance_chord = FALSE
    /\ shared = FALSE
    /\ last_call = "none"
    /\ call_fault = "none"
    /\ last_args = <<>>
    /\ played = 0
    /\ result = Unset
    /\ stored_target = NewStoredTarget
    /\ errors = {}
    /\ retargeted = FALSE
    /\ chord_queue = <<>>
    /\ added = <<>>
    /\ popped = 0
    /\ returned = Unset

\* A MIDIHandler on its own: no slot is connected to its signals.
Init ==
    /\ InitCommon
    /\ connected = FALSE
    /\ practice_name = ""
    /\ target = NoTarget

Next ==
    \/ Notify
    \/ LoopExit
    \/ SystemSkip
    \/ ThreeByte
    \/ TwoByte
    \/ UnknownSkip
    \/ Return

Spec == Init /\ [][Next]_vars

\* One iteration of the running callback: the interpreter keeps executing it.
ScanStep == LoopExit \/ SystemSkip \/ ThreeByte \/ TwoByte \/ UnknownSkip

\* The decoder with a callback that, once started, keeps running.
FairSpec == Spec /\ WF_vars(ScanStep)

\* A GuitarState on its own, its methods called in any order.
GuitarNext ==
    \/ CallPressFret
    \/ CallReleaseFret
    \/ CallStrikeString
    \/ CallReleaseString
    \/ CallClearAll

GuitarSpec == Init /\ [][GuitarNext]_vars

\* A ChordVerifier on its own: a fresh GuitarState, the player's strings one
\* after the other, verify called on any target at any point, get_errors last.
VerifyInit ==
    /\ InitCommon
    /\ connected = FALSE
    /\ practice_name = ""
    /\ target = NoTarget

VerifyNext ==
    \/ PlayString
    \/ HoldString
    \/ CallVerify
    \/ CallGetErrors

VerifySpec == VerifyInit /\ [][VerifyNext]_vars

\* The practice objects on their own: a ChordQueue with its methods called
\* in any order, and the session's practice sequence with a collection
\* chosen by any name and the move to the next chord.
PracticeInit ==
    /\ InitCommon
    /\ connected = FALSE
    /\ practice_name = ""
    /\ target = NoTarget

PracticeNext ==
    \/ CallAdd
    \/ CallPop
    \/ CallPeek
    \/ CallIsEmpty
    \/ CallSize
    \/ CallClear
    \/ on_practice_changed
    \/ CallLoadNextPracticeChord

PracticeSpec == PracticeInit /\ [][PracticeNext]_vars

\* The application: the callback's thread decodes the notifications of the
\* connected guitar while the main thread runs the slots and the timer.
AppInit ==
    /\ InitCommon
    /\ connected = TRUE
    /\ practice_name = FirstCollection
    /\ target = At(Collections[FirstCollection], 0)

AppNext ==
    \/ Next
    \/ on_note_pressed
    \/ on_note_released
    \/ on_fret_pressed
    \/ on_fret_released
    \/ on_practice_changed
    \/ on_chord_changed
    \/ Tick
    \/ finished_chord

AppSpec == AppInit /\ [][AppNext]_vars

----------------------------------------------------------------------------
(* Properties.                                                             *)

\* A finished call on a payload that is the header and one 3-byte message.
SingleDone == pc = "done" /\ Len(data) = 5

\* The bytes of that one message.
Status1 == At(data, 2)
Cmd1 == (Status1 \div 16) * 16
Chan1 == Status1 % 16
D1 == At(data, 3)
D2 == At(data, 4)

\* C1: a payload [h0, h1, 0x90|c, n, v] with c in 0..5 and v > 0 emits exactly
\* one Strike, on string 5-c, with fret n - tuning[5-c].
C1_StrikeFretFromReportedString ==
    (SingleDone /\ Cmd1 = 144 /\ Chan1 \in 0..5 /\ D2 > 0) =>
        events = <<Sig("midi_note_received",
                       <<5 - Chan1, D1 - At(STANDARD_TUNING, 5 - Chan1)>>)>>

\* C2: for c in 0..5, what a Note-On status 0x90|c emits is on string 5-c and
\* what a Control-Change status 0xB0|c emits is on string c.
C2_NoteOnInvertedControlChangeDirect ==
    (SingleDone /\ Chan1 \in 0..5 /\ Cmd1 \in {144, 176}) =>
        /\ events # <<>>
        /\ \A k \in 1..Len(events) :
              events[k].args[1] = IF Cmd1 = 144 THEN 5 - Chan1 ELSE Chan1

\* C3: for c in 0..5, a Note-Off 0x80|c and a Note-On 0x90|c with velocity 0
\* each emit exactly one Release, on string 5-c.
C3_ReleaseOnInvertedString ==
    (SingleDone /\ Chan1 \in 0..5 /\ (Cmd1 = 128 \/ (Cmd1 = 144 /\ D2 = 0))) =>
        events = <<Sig("midi_note_released", <<5 - Chan1>>)>>

\* The scan is at a status byte.
AtStatus == pc = "scan" /\ i < Len(data)

\* C4: a 3-byte command met with fewer than 2 data bytes left ends the scan:
\* the events emitted so far stay as they are, none is added, nothing is raised.
C4_TruncatedStopsScan ==
    [][(AtStatus /\ command \in {128, 144, 160, 176} /\ Len(data) - i - 1 < 2) =>
          (pc' = "done" /\ events' = events /\ fault' = "none" /\ data' = data)]_vars

\* C4 witness: a scan that ended at a truncated message after emitting events.
C4_Witness ==
    /\ pc = "done" /\ fault = "none" /\ events # <<>>
    /\ i < Len(data) /\ (At(data, i) \div 16) \in 8..11

\* C5: a complete 3-byte message with top nibble 8, 9, A or B and any low
\* nibble is consumed as 3 bytes and the scan goes on; Aftertouch emits nothing.
C5_ThreeByteAlwaysAdvances ==
    [][(AtStatus /\ command \in {128, 144, 160, 176} /\ i + 2 < Len(data)) =>
          /\ i' = i + 3
          /\ pc' = "scan"
          /\ fault' = "none"
          /\ (command = 160 => events' = events)]_vars

\* C6: a Control-Change [0xB0|c, d1, d2] emits exactly one event, on string c
\* with fret d2: FretPress when d1 is odd, FretRelease when d1 is even.
C6_ControlChangeByLowBit ==
    (SingleDone /\ Cmd1 = 176) =>
        events = <<Sig(IF D1 % 2 = 1 THEN "fret_pressed" ELSE "fret_released",
                       <<Chan1, D2>>)>>

\* C7: a buffer shorter than 3 bytes yields no event and no error.
C7_ShortBufferNoEvents ==
    (pc # "idle" /\ Len(data) < 3) => (events = <<>> /\ fault = "none")

\* C7 witness: a call on a non-empty buffer shorter than 3 bytes has finished.
C7_Witness == pc = "done" /\ Len(data) \in 1..2

\* A status byte that is neither a 3-byte nor a 2-byte command: top nibble
\* 0xE or 0xF, or a byte below 0x80.
Unrecognized(b) == (b \div 16) \notin 8..13

\* C8: an unrecognized status byte moves the scan by exactly 1 byte and emits
\* nothing; the scan goes on.
C8_UnrecognizedSkipsOne ==
    [][(AtStatus /\ Unrecognized(midi_status)) =>
          /\ i' = i + 1
          /\ pc' = "scan"
          /\ events' = events
          /\ fault' = "none"
          /\ data' = data]_vars

\* C8 witness: a payload whose body starts with two unrecognized bytes of
\* different kinds, and the message behind them was decoded.
C8_Witness ==
    /\ pc = "done" /\ events # <<>> /\ Len(data) >= 7
    /\ Unrecognized(At(data, 2)) /\ Unrecognized(At(data, 3))
    /\ At(data, 2) # At(data, 3)

\* C9: Program-Change and Channel-Pressure move the scan by exactly 2 bytes and
\* emit nothing; as the last byte of the buffer they end the scan, no fault.
C9_TwoByteAdvancesTwo ==
    [][(AtStatus /\ (midi_status \div 16) \in {12, 13}) =>
          /\ events' = events
          /\ fault' = "none"
          /\ data' = data
          /\ IF i = Len(data) - 1
             THEN pc' = "done" /\ i' = i
             ELSE pc' = "scan" /\ i' = i + 2]_vars

\* C9 witness: the scan ended at a 2-byte status in the last byte, after a
\* complete 2-byte message and an emitted event.
C9_Witness ==
    /\ pc = "done" /\ fault = "none" /\ events # <<>>
    /\ i = Len(data) - 1 /\ (At(data, i) \div 16) \in {12, 13}
    /\ (At(data, 2) \div 16) \in {12, 13}

\* C10: no buffer makes the call propagate a fault to its caller.
C10_NoFaultPropagates == fault # "propagated"

\* C10 witness: a read raised inside the callback and the except clause took it.
C10_Witness == pc = "done" /\ fault = "caught"

\* C11: decoding terminates: the scan starts at position 2, each iteration
\* either stops or moves the scan position forward by 1, 2 or 3, and every
\* started scan reaches its end.
C11_ScanTerminates ==
    /\ [][(pc = "idle" /\ pc' = "scan") => i' = 2]_vars
    /\ [][pc = "scan" =>
            \/ pc' = "done" /\ i' = i
            \/ pc' = "scan" /\ (i' - i) \in 1..3 /\ data' = data]_vars
    /\ (pc = "scan" ~> pc = "done")

\* C11 witness: a scan that walked a payload of three messages to its end.
C11_Witness == pc = "done" /\ fault = "none" /\ Len(data) >= 9 /\ i >= Len(data)

\* C18: a string struck at a fret >= 0 reads as struck in every later state
\* until a clear operation, whatever other GuitarState calls come in between.
C18_StruckUntilCleared ==
    \A s \in struck_history : is_string_struck(strings_struck, s) = "True"

----------------------------------------------------------------------------
(* Properties of the connected session.                                    *)

\* <<call, position>> a comes before b: an earlier notification, or the same
\* one and an earlier message of its buffer.
Before(a, b) == a[1] < b[1] \/ (a[1] = b[1] /\ a[2] < b[2])
Origin(e) == <<e.call, e.pos>>

\* C12: the events are emitted and applied in the order of their messages:
\* the events waiting for the main thread stand in buffer order, and all of
\* them come after the event applied last.
C12_AppliedInBufferOrder ==
    /\ \A k \in 1..(Len(queue) - 1) :
          Before(Origin(queue[k]), Origin(queue[k + 1]))
    /\ queue # <<>> => Before(last_applied, Origin(Head(queue)))

\* Three events of one payload have been applied, the last of them the one
\* of the third message.
C12_Witness ==
    /\ last_applied[2] = 8
    /\ last_call = "on_fret_released"
    /\ queue = <<>>

\* The steps that are a run of on_note_pressed and of finished_chord.
StrikeApplied == last_call' = "on_note_pressed" /\ last_applied' # last_applied
TimerFired == last_call' = "finished_chord" /\ timer_active /\ ~timer_active'

\* C19: every strike restarts the one chord timer from 0, and finished_chord
\* runs only when chord_timeout_ms have passed since the last strike, and
\* leaves no timer pending.
C19_DebounceRestarts ==
    /\ [][StrikeApplied => timer_active' /\ timer_elapsed' = 0]_vars
    /\ [][TimerFired => since_strike >= chord_timeout_ms /\ ~timer_active']_vars

\* finished_chord has run after a second strike that came while the timer of
\* the first one was pending.
C19_Witness ==
    /\ last_call = "finished_chord"
    /\ ~timer_active
    /\ since_strike >= chord_timeout_ms
    /\ Cardinality(struck_history) >= 2

\* The steps that change the target chord and that clear the GuitarState.
TargetChanged == target' # target
StateCleared ==
    strings_struck' # strings_struck /\ strings_struck' = ClearedStringsStruck

\* C20: a change of the target chord, and a clearing of the GuitarState,
\* leave no chord timer pending.
C20_TargetChangeCancelsTimer ==
    [][(TargetChanged \/ StateCleared) => ~timer_active']_vars

\* C21: when a verification cycle ends, finished_chord has ended without a
\* fault and the strikes are cleared: no string reads as struck.
C21_StrikesClearedAfterVerification ==
    last_call = "finished_chord" =>
        /\ call_fault = "none"
        /\ \A s \in Strings : is_string_struck(strings_struck, s) # "True"

\* C26: when the chord timer has fired on a target with frets, the feedback
\* is CORRECT if verify gives (true, true) on the state, INCORRECT if not.
C26_VerdictIsConjunction ==
    (last_call = "finished_chord" /\ target.frets # <<>>) =>
        feedback_text =
            IF verify(target.frets, target.strings_to_strike,
                      pressed_frets, strings_struck) = PyTuple(TRUE, TRUE)
            THEN "CORRECT" ELSE "INCORRECT"

----------------------------------------------------------------------------
(* Properties of verify, stated on the state a call of verify leaves.      *)

Verified == last_call = "verify" /\ result.type = "tuple"
FretsMatched == result.value[1]
StringsMatched == result.value[2]

TargetFret(s) == At(target.frets, s)
Expected(s) == InList(s, target.strings_to_strike)
StruckNow(s) == is_string_struck(strings_struck, s) = "True"

\* The mismatches a string contributes by the rules of the three cases.
FretMismatch(s) == TargetFret(s) > 0 /\ pressed_frets[s] # TargetFret(s)
FrettedSilent(s) == TargetFret(s) > 0 /\ Expected(s) /\ ~StruckNow(s)
OpenMismatch(s) == TargetFret(s) = 0 /\ (StruckNow(s) # Expected(s))
MutedStruck(s) == TargetFret(s) = -1 /\ StruckNow(s)

\* C13: for the fretted target strings, frets_matched is false exactly when
\* the fret held on some such string s differs from target.frets[s], and
\* strings_matched is false when such a string is expected and not struck.
C13_FrettedStringsCompared ==
    Verified =>
        /\ (FretsMatched = FALSE) <=> (\E s \in Strings : FretMismatch(s))
        /\ (\E s \in Strings : FrettedSilent(s)) => StringsMatched = FALSE

\* C14: when every fretted string holds its target fret, every string to
\* strike has been struck (open strings at fret 0 included) and no muted
\* string has been struck, verify returns (true, true).
C14_IntendedPlayMatches ==
    ( /\ last_call = "verify"
      /\ target.frets # <<>>
      /\ \A s \in Strings :
            /\ TargetFret(s) > 0 => pressed_frets[s] = TargetFret(s)
            /\ Expected(s) => s \in struck_history
            /\ TargetFret(s) = -1 => s \notin struck_history )
    => result = PyTuple(TRUE, TRUE)

\* C15: with an empty target fret list verify returns a non-match that the
\* session can consume: neither the call nor the unpacking of its value
\* raises.
C15_FailsClosed ==
    (last_call = "verify" /\ target.frets = <<>>) =>
        /\ call_fault = "none"
        /\ ~UnpackRaises(result)

\* C16: for the open target strings, strings_matched is false when such a
\* string is struck without being expected or expected without being struck,
\* and true when no string of the target contributes a mismatch.
C16_OpenStringsStruckAsExpected ==
    Verified =>
        /\ (\E s \in Strings : OpenMismatch(s)) => StringsMatched = FALSE
        /\ (\A s \in Strings :
               ~OpenMismatch(s) /\ ~MutedStruck(s) /\ ~FrettedSilent(s))
           => StringsMatched = TRUE

\* C17: a muted target string that has been struck makes strings_matched
\* false; one that has not been struck contributes no mismatch, whatever
\* fret is held on it.
C17_MutedStringsSilent ==
    Verified =>
        /\ (\E s \in Strings : MutedStruck(s)) => StringsMatched = FALSE
        /\ ( /\ \E s \in Strings : TargetFret(s) = -1
             /\ \A s \in Strings :
                   ~OpenMismatch(s) /\ ~MutedStruck(s) /\ ~FrettedSilent(s) )
           => StringsMatched = TRUE

----------------------------------------------------------------------------
(* Properties of the GuitarState methods, called in any order.             *)

\* C22: clear_all ends without a fault and leaves every string with no fret
\* held and not struck.
C22_ClearAllLeavesUsableState ==
    last_call = "clear_all" =>
        /\ call_fault = "none"
        /\ \A s \in Strings :
              /\ get_fret_pressed(pressed_frets, s) = 0
              /\ is_string_struck(strings_struck, s) = "False"

\* C28: release_string leaves the strike state and the held frets of all
\* strings as they are.
C28_ReleaseStringNoOp ==
    [][last_call' = "release_string" =>
          pressed_frets' = pressed_frets /\ strings_struck' = strings_struck]_vars

\* release_string has been called on a string that was struck, and the
\* string still reads as struck.
C28_Witness ==
    /\ last_call = "release_string"
    /\ last_args = <<0>>
    /\ is_string_struck(strings_struck, 0) = "True"

\* C29: release_fret on a string 0..5 sets the fret of that string to 0,
\* whatever the fret argument, and changes no other string.
C29_ReleaseFretAnyArgument ==
    [][(last_call' = "release_fret" /\ last_args'[1] \in Strings) =>
          pressed_frets' = [pressed_frets EXCEPT ![last_args'[1]] = 0]]_vars

\* C30: press_fret, release_fret and strike_string with a string index
\* outside 0..5 change nothing and do not raise.
C30_OutOfRangeIgnored ==
    [][( /\ last_call' \in {"press_fret", "release_fret", "strike_string"}
         /\ last_args'[1] \notin Strings ) =>
          /\ pressed_frets' = pressed_frets
          /\ strings_struck' = strings_struck
          /\ call_fault' = "none"]_vars

\* press_fret has been called with index -1 on a state that holds a fret and
\* a strike, and both are still there.
C30_Witness ==
    /\ last_call = "press_fret"
    /\ last_args = <<-1, 1>>
    /\ pressed_frets[5] = 2
    /\ strings_struck[5] = 2

----------------------------------------------------------------------------
(* Properties of get_errors and of the two verdicts of verify.             *)

\* get_errors has been called on the state and the target verify judged.
ErrorsAfterVerify ==
    /\ last_call = "get_errors"
    /\ result.type = "tuple"
    /\ result = verify(target.frets, target.strings_to_strike,
                       pressed_frets, strings_struck)

HasError(k, msg, args) == ErrorEntry(k, msg, args) \in errors

\* C23: a fretted string that holds the wrong fret has the diagnostic
\* 'should be on fret X, got Y' under its own index, and a muted string that
\* was struck has 'should not be struck' under its own index.
C23_ErrorsNameTheString ==
    ErrorsAfterVerify =>
        \A s \in Strings :
            /\ (FretMismatch(s) /\ StruckNow(s)) =>
                  HasError(s, "should be on fret",
                           <<TargetFret(s), pressed_frets[s]>>)
            /\ MutedStruck(s) => HasError(s, "should not be struck", <<>>)

\* C24: get_errors is empty after a verify that returned (true, true), and
\* a string has an entry only if a rule of verify fails for that string.
C24_NoErrorForMatch ==
    ErrorsAfterVerify =>
        /\ result = PyTuple(TRUE, TRUE) => errors = {}
        /\ \A e \in errors :
              \/ FretMismatch(e.key)
              \/ FrettedSilent(e.key)
              \/ OpenMismatch(e.key)
              \/ MutedStruck(e.key)

\* C25: with the target fixed, frets_matched is a function of the held
\* frets alone and strings_matched one of the strikes alone: each is what
\* verify gives when the other list is that of a fresh GuitarState.
C25_IndependentAxes ==
    Verified =>
        /\ FretsMatched = verify(target.frets, target.strings_to_strike,
                                 pressed_frets, NewStringsStruck).value[1]
        /\ StringsMatched = verify(target.frets, target.strings_to_strike,
                                   NewPressedFrets, strings_struck).value[2]

\* verify has returned correct frets with wrong strikes.
C25_Witness ==
    /\ Verified
    /\ result = PyTuple(TRUE, FALSE)
    /\ struck_history # {}

\* C27: what get_errors returns is computed from the target of the last
\* verify call and the GuitarState as it is when get_errors is called.
C27_ErrorsFromLastVerify ==
    last_call = "get_errors" =>
        errors = get_errors(target.frets, pressed_frets, strings_struck)

\* get_errors has been called after verify calls on two different targets
\* and after the state changed behind the last of them; it reports errors.
C27_Witness ==
    /\ last_call = "get_errors"
    /\ retargeted
    /\ errors # {}
    /\ result # verify(target.frets, target.strings_to_strike,
                       pressed_frets, strings_struck)

----------------------------------------------------------------------------
(* Properties of the GuitarState under any sequence of calls.              *)

\* C31: in every reachable state the fret held on every string 0..5 is an
\* integer that is not negative.
C31_PressedFretNeverNegative ==
    \A s \in Strings : pressed_frets[s] \in Nat

\* press_fret has been called with a negative fret on a string that holds a
\* fret, which it still holds.
C31_Witness ==
    /\ last_call = "press_fret"
    /\ last_args = <<0, -1>>
    /\ pressed_frets[0] = 2

----------------------------------------------------------------------------
(* The two threads of the application.                                     *)

\* A step of the callback's thread; a step that writes the GuitarState; a
\* step that applies one queued event; a step of the combo boxes.
CallbackStep == decoderVars' # decoderVars \/ calls' # calls
GuitarWritten == guitarVars' # guitarVars
EventApplied == queue # <<>> /\ queue' = Tail(queue)
ComboStep == last_call' \in {"on_chord_changed", "on_practice_changed"}

\* C32: the GuitarState is written, and read by the slot of the chord timer,
\* only in steps of the main thread, one slot at a time: a step that writes
\* it is no step of the callback and is the run of one slot, on one queued
\* event or for a combo box; the step of finished_chord is no step of the
\* callback and applies no event.
C32_OneThreadTouchesGuitarState ==
    /\ [][GuitarWritten => ~CallbackStep /\ (EventApplied \/ ComboStep)]_vars
    /\ [][TimerFired => ~CallbackStep /\ queue' = queue /\ ~GuitarWritten]_vars

\* finished_chord has run while the callback is in the middle of a payload
\* and events of that payload wait in the queue.
C32_Witness ==
    /\ pc = "scan"
    /\ i > 2
    /\ queue # <<>>
    /\ last_call = "finished_chord"

----------------------------------------------------------------------------
(* Properties of the ChordQueue.                                           *)

\* The chords added since the last clear and not popped yet, oldest first.
NotPoppedYet == SubSeq(added, popped + 1, Len(added))

\* C33: the queue holds the chords not popped yet in the order they were
\* added; pop returns the oldest of them and removes it; size returns the
\* number of adds minus the number of pops that returned a chord; peek
\* returns the oldest and leaves the queue as it is; on an empty queue pop
\* and peek return None and leave it empty.
C33_FirstInFirstOut ==
    /\ [](chord_queue = NotPoppedYet)
    /\ [][last_call' = "pop" =>
              IF chord_queue = <<>>
              THEN returned' = PyNone /\ chord_queue' = <<>>
              ELSE /\ returned' = PyObject(added[popped + 1])
                   /\ chord_queue' = Tail(chord_queue)]_vars
    /\ [][last_call' = "peek" =>
              /\ chord_queue' = chord_queue
              /\ returned' = IF chord_queue = <<>> THEN PyNone
                             ELSE PyObject(added[popped + 1])]_vars
    /\ [][last_call' = "size" =>
              /\ chord_queue' = chord_queue
              /\ returned' = PyInt(Len(added) - popped)]_vars

\* The second pop after three adds of different chords has returned the
\* chord added second.
C33_Witness ==
    /\ last_call = "pop"
    /\ Len(added) = 3
    /\ added[1] # added[2]
    /\ added[2] # added[3]
    /\ popped = 2
    /\ returned = PyObject(added[2])
    /\ chord_queue = <<added[3]>>

----------------------------------------------------------------------------
(* Properties of the practice sequence.                                    *)

\* _load_next_practice_chord has run last, called by on_practice_changed or
\* after the move to the next index.
ChordLoaded == last_call \in {"on_practice_changed", "_load_next_practice_chord"}

\* C34: whatever the practice list, the empty one of an unknown collection
\* included, _load_next_practice_chord returns: it does not call itself
\* without end.
C34_LoadTerminates == ChordLoaded => call_fault = "none"

\* C37: with a practice list that is not empty, the index is one of the list
\* when _load_next_practice_chord has returned, and the move to the next
\* chord goes round: from the last chord to index 0.
C37_IndexInRangeAndCyclic ==
    /\ []((ChordLoaded /\ practice_chords # <<>>) =>
              current_practice_idx \in 0..(Len(practice_chords) - 1))
    /\ [][(last_call' = "_load_next_practice_chord" /\ practice_chords # <<>>) =>
              current_practice_idx' =
                  (current_practice_idx + 1) % Len(practice_chords)]_vars

\* The move from the last chord of a list of two has loaded the first one.
C37_Witness ==
    /\ last_call = "_load_next_practice_chord"
    /\ Len(practice_chords) = 2
    /\ last_args = <<2>>
    /\ current_practice_idx = 0
    /\ target = At(practice_chords, 0)

----------------------------------------------------------------------------
(* What the slots of the session write.                                    *)

\* A run of on_fret_pressed or on_fret_released on a queued event.
FretEventApplied ==
    /\ last_call' \in {"on_fret_pressed", "on_fret_released"}
    /\ last_applied' # last_applied

\* C38: the slot of a strike on string s at fret f >= 0 records the strike
\* and writes f as the fret held on s as well; the slots of a fret press and
\* of a fret release leave the strikes of all strings as they are.
C38_StrikeAlsoPressesFret ==
    /\ [][(StrikeApplied /\ last_args'[1] \in Strings /\ last_args'[2] >= 0) =>
              /\ strings_struck' =
                     [strings_struck EXCEPT ![last_args'[1]] = last_args'[2]]
              /\ pressed_frets' =
                     [pressed_frets EXCEPT ![last_args'[1]] = last_args'[2]]]_vars
    /\ [][FretEventApplied => strings_struck' = strings_struck]_vars

\* A strike on string 5 at fret 24 has been applied: the string is struck
\* and held at 24, while string 3, struck before, keeps its strike through
\* the events applied since.
C38_Witness ==
    /\ last_call = "on_note_pressed"
    /\ last_args = <<5, 24>>
    /\ pressed_frets[5] = 24
    /\ strings_struck[5] = 24
    /\ strings_struck[3] = 10

----------------------------------------------------------------------------
(* verify and get_errors side by side.                                     *)

\* C39: verify and get_errors judge each target index on the held fret and
\* the strike of one and the same string, so that when verify has returned
\* a false component for a target with frets, get_errors called on the same
\* state reports at least one error.
C39_FalseVerdictHasErrors ==
    (ErrorsAfterVerify /\ target.frets # <<>> /\ result # PyTuple(TRUE, TRUE))
        => errors # {}

----------------------------------------------------------------------------
(* The advance of the practice sequence.                                   *)

\* The state matches the chord shown: verify gives (true, true) on it.
CorrectlyPlayed ==
    verify(target.frets, target.strings_to_strike, pressed_frets,
           strings_struck) = PyTuple(TRUE, TRUE)

\* A run of on_fret_released that leaves no fret held on any string.
AllReleasedEvent ==
    /\ last_call' = "on_fret_released"
    /\ last_applied' # last_applied
    /\ AllFretsReleased(pressed_frets')

\* C36: with the feedback shown, when the chord timer has fired on a state
\* that matches the chord shown, the first fret release that leaves no fret
\* held moves the practice index to the next chord, by one; and within a
\* collection the index moves at such an event only.
C36_CorrectAdvancesAtRelease ==
    /\ [][(last_call = "finished_chord" /\ CorrectlyPlayed /\ AllReleasedEvent) =>
              current_practice_idx' =
                  (current_practice_idx + 1) % Len(practice_chords)]_vars
    /\ [][(practice_name' = practice_name
            /\ current_practice_idx' # current_practice_idx) =>
              AllReleasedEvent]_vars

====
